---- MODULE Spec2Model ----
(***************************************************************************)
(* Visual Vocab: the quiz orchestrator (src/services/gemini.ts), the       *)
(* drawing surface (src/components/DrawingCanvas.tsx) and the shell        *)
(* (src/App.tsx), as a state machine.                                      *)
(*                                                                         *)
(* A JavaScript string is a sequence of one-character strings, except that *)
(* a data-URI header is kept as one element.  null and undefined are the   *)
(* one-element sequences Null and Undefined, so that every string-valued   *)
(* field has one type.                                                     *)
(***************************************************************************)
EXTENDS Integers, Sequences, FiniteSets, TLC

VARIABLES
  word, sentence, drawingData,   \* App.tsx:11-13  form state
  isLoading, result,             \* App.tsx:15-16
  userGuess, feedback, error,    \* App.tsx:17-19
  canvas,                        \* DrawingCanvas.tsx:10-12  the mounted drawing surface
  cbLog,                         \* the last handler of the mounted surface: the state it
                                 \* found and the onImageReady calls it made
  gq,                            \* the activation of generateQuiz (gemini.ts:18-148)
  dls,                           \* the activations of downloadImage waiting for the decode
  lastDl                         \* what the last finished downloadImage did

shellVars == <<word, sentence, drawingData, isLoading, result, userGuess, feedback, error>>
canvasVars == <<canvas, cbLog>>
dlVars == <<dls, lastDl>>
vars == <<shellVars, canvasVars, gq, dlVars>>

----------------------------------------------------------------------------
(* Strings *)

Null == <<"<null>">>
Undefined == <<"<undefined>">>

\* JavaScript truthiness of a string | null | undefined value
Truthy(s) == s # Null /\ s # Undefined /\ s # <<>>

IsWs(c) == c = " "

RECURSIVE TrimStart(_)
TrimStart(s) == IF s # <<>> /\ IsWs(Head(s)) THEN TrimStart(Tail(s)) ELSE s

RECURSIVE TrimEnd(_)
TrimEnd(s) ==
  IF s # <<>> /\ IsWs(s[Len(s)]) THEN TrimEnd(SubSeq(s, 1, Len(s) - 1)) ELSE s

\* String.prototype.trim
Trim(s) == TrimEnd(TrimStart(s))

PngHeader == "data:image/png;base64,"
JpegHeader == "data:image/jpeg;base64,"
JpgHeader == "data:image/jpg;base64,"
GifHeader == "data:image/gif;base64,"

\* data.replace(/^data:image\/(png|jpeg|jpg);base64,/, "")
cleanBase64(data) ==
  IF data # <<>> /\ Head(data) \in {PngHeader, JpegHeader, JpgHeader}
  THEN Tail(data)
  ELSE data

----------------------------------------------------------------------------
(* The generative AI service: what a request carries, what a response holds *)

NoRequest == [kind |-> "none", data |-> <<>>, word |-> <<>>, context |-> <<>>]

\* gemini.ts:44-57: the sketch-to-illustration request
SketchRequest(w, s, d) ==
  [kind |-> "sketch", data |-> cleanBase64(d), word |-> w,
   context |-> IF Truthy(s) THEN s ELSE <<>>]

\* gemini.ts:60-67: the text-to-illustration request
TextToImageRequest(w, s) ==
  [kind |-> "text2img", data |-> <<>>, word |-> w, context |-> s]

\* gemini.ts:87-111: the structured text request, blanking or authoring
TextRequest(w, s) ==
  IF Trim(s) # <<>>
  THEN [kind |-> "blank", data |-> <<>>, word |-> w, context |-> s]
  ELSE [kind |-> "author", data |-> <<>>, word |-> w, context |-> <<>>]

IsImageRequest(r) == r.kind \in {"sketch", "text2img"}
IsTextRequest(r) == r.kind \in {"blank", "author"}

\* A part of a candidate's content: inline image data or not
Part(inline, d) == [hasInline |-> inline, data |-> d]
\* A candidate: content and content.parts are optional in the service's response
Candidate(hasContent, hasParts, parts) ==
  [hasContent |-> hasContent, hasParts |-> hasParts, parts |-> parts]
ImageResponse(hasCandidates, cands) ==
  [hasCandidates |-> hasCandidates, candidates |-> cands]
NoImageResponse == ImageResponse(FALSE, <<>>)

\* textResponse.text: undefined, or a string that is empty, not JSON, the JSON
\* null, or a JSON object with some of the two fields
TextPayload(kind, orig, blank) ==
  [kind |-> kind, originalSentence |-> orig, blankedSentence |-> blank]
NoTextPayload == TextPayload("undefined", Undefined, Undefined)

----------------------------------------------------------------------------
(* generateQuiz, gemini.ts:18-148 *)

ErrSubmitNoDrawing == "You must draw a picture to use 'Submit' mode."
ErrGenerateNoInput == "Please provide either a drawing or a sentence to generate an image."
ErrImageFailed == "Failed to generate or process image."
TypeErrorMessage == "Cannot read properties of undefined"
TypeErrorNullMessage == "Cannot read properties of null"
SyntaxErrorMessage == "Unexpected token in JSON"
NoError == "<null>"

NoResult ==
  [present |-> FALSE, imageUrl |-> Null, originalSentence |-> Null,
   blankedSentence |-> Null, targetWord |-> Null]

\* types.ts:1-6 and gemini.ts:142-147
QuizResult(url, orig, blank, w) ==
  [present |-> TRUE, imageUrl |-> url, originalSentence |-> orig,
   blankedSentence |-> blank, targetWord |-> w]

NoImagePromise == [state |-> "none", data |-> Null, resp |-> NoImageResponse, reason |-> NoError]
NoTextPromise == [state |-> "none", payload |-> NoTextPayload, reason |-> NoError]

\* the activation before any call
IdleQuiz ==
  [pc |-> "idle", mode |-> "submit", word |-> <<>>, sentence |-> <<>>, drawing |-> Null,
   image |-> NoImagePromise, text |-> NoTextPromise, reqs |-> <<>>,
   value |-> NoResult, error |-> NoError]

\* a throw inside the async function: the returned promise rejects
Throw(g, msg) == [g EXCEPT !.pc = "thrown", !.error = msg]

\* submit mode keeping the header-stripped drawing
PrepareImage_Cleaned(g) ==
  IF g.mode = "submit"
  THEN IF ~Truthy(g.drawing)
       THEN Throw(g, ErrSubmitNoDrawing)
       ELSE [g EXCEPT !.image = [NoImagePromise EXCEPT !.state = "original",
                                                       !.data = cleanBase64(g.drawing)]]
  ELSE IF Truthy(g.drawing)
       THEN [g EXCEPT !.image = [NoImagePromise EXCEPT !.state = "pending"],
                      !.reqs = Append(g.reqs, SketchRequest(g.word, g.sentence, g.drawing))]
       ELSE IF Trim(g.sentence) # <<>>
            THEN [g EXCEPT !.image = [NoImagePromise EXCEPT !.state = "pending"],
                           !.reqs = Append(g.reqs, TextToImageRequest(g.word, g.sentence))]
            ELSE Throw(g, ErrGenerateNoInput)

\* generate mode looking at the sentence before the drawing
PrepareImage_SentenceFirst(g) ==
  IF g.mode = "submit"
  THEN IF ~Truthy(g.drawing)
       THEN Throw(g, ErrSubmitNoDrawing)
       ELSE [g EXCEPT !.image = [NoImagePromise EXCEPT !.state = "original",
                                                       !.data = g.drawing]]
  ELSE IF Trim(g.sentence) # <<>>
       THEN [g EXCEPT !.image = [NoImagePromise EXCEPT !.state = "pending"],
                      !.reqs = Append(g.reqs, TextToImageRequest(g.word, g.sentence))]
       ELSE IF Truthy(g.drawing)
            THEN [g EXCEPT !.image = [NoImagePromise EXCEPT !.state = "pending"],
                           !.reqs = Append(g.reqs, SketchRequest(g.word, g.sentence, g.drawing))]
            ELSE Throw(g, ErrGenerateNoInput)

\* gemini.ts:26-71: the image promise, or the validation error
PrepareImage(g) ==
  IF g.mode = "submit"
  THEN IF ~Truthy(g.drawing)
       THEN Throw(g, ErrSubmitNoDrawing)
       ELSE [g EXCEPT !.image = [NoImagePromise EXCEPT !.state = "original",
                                                       !.data = g.drawing]]
  ELSE IF Truthy(g.drawing)
       THEN [g EXCEPT !.image = [NoImagePromise EXCEPT !.state = "pending"],
                      !.reqs = Append(g.reqs, SketchRequest(g.word, g.sentence, g.drawing))]
       ELSE IF Trim(g.sentence) # <<>>
            THEN [g EXCEPT !.image = [NoImagePromise EXCEPT !.state = "pending"],
                           !.reqs = Append(g.reqs, TextToImageRequest(g.word, g.sentence))]
            ELSE Throw(g, ErrGenerateNoInput)

\* gemini.ts:73-111: the text promise, in both modes
PrepareText(g) ==
  [g EXCEPT !.text = [NoTextPromise EXCEPT !.state = "pending"],
            !.reqs = Append(g.reqs, TextRequest(g.word, g.sentence))]

\* the text request issued before the image branch validates
generateQuizCall_TextFirst(w, s, d, m) ==
  PrepareImage(PrepareText([IdleQuiz EXCEPT !.pc = "awaiting", !.mode = m, !.word = w,
                                            !.sentence = s, !.drawing = d]))

\* gemini.ts:18-114: the call up to the await of Promise.all
generateQuizCall(w, s, d, m) ==
  LET g0 == [IdleQuiz EXCEPT !.pc = "awaiting", !.mode = m, !.word = w,
                             !.sentence = s, !.drawing = d]
      g1 == PrepareImage(g0)
  IN  IF g1.pc = "thrown" THEN g1 ELSE PrepareText(g1)

\* gemini.ts:125-130: the first part with inline data wins
RECURSIVE FirstInline(_)
FirstInline(parts) ==
  IF parts = <<>> THEN <<>>
  ELSE IF Head(parts).hasInline THEN <<PngHeader>> \o Head(parts).data
  ELSE FirstInline(Tail(parts))

\* gemini.ts:116-132: finalImageUrl, or the TypeError of reading through undefined
ExtractImage(image) ==
  IF image.state = "original"
  THEN [threw |-> FALSE, url |-> image.data]
  ELSE IF ~image.resp.hasCandidates
  THEN [threw |-> FALSE, url |-> <<>>]
  ELSE IF image.resp.candidates = <<>>
  THEN [threw |-> TRUE, url |-> <<>>]      \* candidates[0] is undefined
  ELSE IF ~image.resp.candidates[1].hasContent
  THEN [threw |-> TRUE, url |-> <<>>]      \* candidates[0].content is undefined
  ELSE IF ~image.resp.candidates[1].hasParts
  THEN [threw |-> FALSE, url |-> <<>>]
  ELSE [threw |-> FALSE, url |-> FirstInline(image.resp.candidates[1].parts)]

\* gemini.ts:139: textResponse.text || "{}"
JsonText(payload) ==
  IF payload.kind \in {"undefined", "empty"}
  THEN TextPayload("object", Undefined, Undefined)
  ELSE payload

\* gemini.ts:116-147: the merge after both promises fulfilled
Merge(g) ==
  LET img == ExtractImage(g.image)
      json == JsonText(g.text.payload)
  IN  IF img.threw THEN Throw(g, TypeErrorMessage)
      ELSE IF ~Truthy(img.url) THEN Throw(g, ErrImageFailed)
      ELSE IF json.kind = "malformed" THEN Throw(g, SyntaxErrorMessage)
      ELSE IF json.kind = "null" THEN Throw(g, TypeErrorNullMessage)
      ELSE [g EXCEPT !.pc = "returned",
                     !.value = QuizResult(img.url, json.originalSentence,
                                          json.blankedSentence, g.word)]

ImageDone(g) == g.image.state \in {"original", "fulfilled"}
TextDone(g) == g.text.state = "fulfilled"

\* a join that goes on as soon as the image is there
PromiseAll_ImageOnly(g) ==
  IF g.pc # "awaiting" THEN g
  ELSE IF g.image.state = "rejected" THEN Throw(g, g.image.reason)
  ELSE IF ImageDone(g) THEN Merge(g)
  ELSE g

\* gemini.ts:114: await Promise.all([imagePromise, textPromise])
PromiseAll(g) ==
  IF g.pc # "awaiting" THEN g
  ELSE IF g.image.state = "rejected" THEN Throw(g, g.image.reason)
  ELSE IF g.text.state = "rejected" THEN Throw(g, g.text.reason)
  ELSE IF ImageDone(g) /\ TextDone(g) THEN Merge(g)
  ELSE g

\* the image request settles
ImageFulfilled(g, resp) ==
  PromiseAll([g EXCEPT !.image.state = "fulfilled", !.image.resp = resp])
ImageRejected(g, msg) ==
  PromiseAll([g EXCEPT !.image.state = "rejected", !.image.reason = msg])
\* the text request settles
TextFulfilled(g, payload) ==
  PromiseAll([g EXCEPT !.text.state = "fulfilled", !.text.payload = payload])
TextRejected(g, msg) ==
  PromiseAll([g EXCEPT !.text.state = "rejected", !.text.reason = msg])

----------------------------------------------------------------------------
(* Bounds and the inputs drawn from them *)

MaxInk == 1         \* line segments the raster tells apart
MaxDownloads == 2   \* downloadImage activations waiting for their decode at once

WordInputs == {<<>>, <<" ">>, <<"A", " ", " ", "b">>}
SentenceInputs == {<<>>, <<" ">>, <<"a", " ", "_">>}
GuessInputs == {<<>>, <<" ", "a", " ", " ", "b">>, <<"b">>}
Modes == {"submit", "generate"}

\* what a direct caller of generateQuiz may pass as drawingBase64
DrawingInputs ==
  {Null, <<>>, <<PngHeader, "i">>, <<JpegHeader, "i">>, <<GifHeader, "i">>, <<"i">>}

ImageResponses ==
  { NoImageResponse,
    ImageResponse(TRUE, <<>>),
    ImageResponse(TRUE, <<Candidate(FALSE, FALSE, <<>>)>>),
    ImageResponse(TRUE, <<Candidate(TRUE, FALSE, <<>>)>>),
    ImageResponse(TRUE, <<Candidate(TRUE, TRUE, <<>>)>>),
    ImageResponse(TRUE, <<Candidate(TRUE, TRUE, <<Part(FALSE, <<>>)>>)>>),
    ImageResponse(TRUE, <<Candidate(TRUE, TRUE, <<Part(FALSE, <<>>), Part(TRUE, <<"g">>)>>)>>),
    ImageResponse(TRUE, <<Candidate(TRUE, TRUE, <<Part(TRUE, <<"g">>), Part(TRUE, <<"h">>)>>)>>) }

TextPayloads ==
  { NoTextPayload,
    TextPayload("empty", Undefined, Undefined),
    TextPayload("malformed", Undefined, Undefined),
    TextPayload("null", Undefined, Undefined),
    TextPayload("object", Undefined, Undefined),
    TextPayload("object", <<>>, <<>>),
    TextPayload("object", <<"a", " ", "b">>, Undefined),
    TextPayload("object", <<"a", " ", "b">>, <<"_", " ", "b">>),
    TextPayload("object", <<"a", " ", "b", " ", "c">>, <<"_", " ", "b", " ", "c">>) }

\* err.message of a rejected service request
RejectMessages == {"Network error", ""}

----------------------------------------------------------------------------
(* The drawing surface, DrawingCanvas.tsx *)

\* no DrawingCanvas is mounted: the form is not rendered (App.tsx:310, 357)
Unmounted == [mounted |-> FALSE, isDrawing |-> FALSE, hasDrawn |-> FALSE, ink |-> 0]
\* DrawingCanvas.tsx:10-29: a mounted surface, white raster
FreshCanvas == [mounted |-> TRUE, isDrawing |-> FALSE, hasDrawn |-> FALSE, ink |-> 0]

\* canvas.toDataURL('image/png') of the raster
toDataURL(c) == <<PngHeader, ToString(c.ink)>>

NoCallbacks == [event |-> "none", wasDrawing |-> FALSE, hadDrawn |-> FALSE, calls |-> <<>>]
Logged(event, calls) ==
  [event |-> event, wasDrawing |-> canvas.isDrawing, hadDrawn |-> canvas.hasDrawn,
   calls |-> calls]

\* DrawingCanvas.tsx:92-98
exportCanvas(c) == IF c.hasDrawn THEN <<toDataURL(c)>> ELSE <<>>

\* stopDrawing without its isDrawing guard
stopDrawingCalls_NoGuard(c) == exportCanvas(c)

\* DrawingCanvas.tsx:57-61: the onImageReady calls of stopDrawing
stopDrawingCalls(c) == IF ~c.isDrawing THEN <<>> ELSE exportCanvas(c)

\* App.tsx:357: onImageReady is setDrawingData
AfterCallbacks(calls) == IF calls = <<>> THEN drawingData ELSE calls[Len(calls)]

\* a form that stays on screen while loading
FormShown_WhileLoading == ~result.present

FormShown == ~result.present /\ ~isLoading

\* DrawingCanvas.tsx:31-43
startDrawing ==
  /\ canvas.mounted
  /\ canvas' = [canvas EXCEPT !.isDrawing = TRUE, !.hasDrawn = TRUE]
  /\ cbLog' = Logged("press", <<>>)
  /\ UNCHANGED <<shellVars, gq, dlVars>>

\* DrawingCanvas.tsx:45-55
draw ==
  /\ canvas.mounted
  /\ canvas' = IF canvas.isDrawing /\ canvas.ink < MaxInk
               THEN [canvas EXCEPT !.ink = canvas.ink + 1]
               ELSE canvas
  /\ cbLog' = Logged("move", <<>>)
  /\ UNCHANGED <<shellVars, gq, dlVars>>

\* DrawingCanvas.tsx:57-61, on mouseup / touchend ("release") and mouseleave ("leave")
stopDrawing(event) ==
  /\ canvas.mounted
  /\ canvas' = [canvas EXCEPT !.isDrawing = FALSE]
  /\ cbLog' = Logged(event, stopDrawingCalls(canvas))
  /\ drawingData' = AfterCallbacks(stopDrawingCalls(canvas))
  /\ UNCHANGED <<word, sentence, isLoading, result, userGuess, feedback, error, gq, dlVars>>

\* DrawingCanvas.tsx:81-90
clearCanvas ==
  /\ canvas.mounted
  /\ canvas' = [canvas EXCEPT !.hasDrawn = FALSE, !.ink = 0]
  /\ cbLog' = Logged("clear", <<Null>>)
  /\ drawingData' = AfterCallbacks(<<Null>>)
  /\ UNCHANGED <<word, sentence, isLoading, result, userGuess, feedback, error, gq, dlVars>>

----------------------------------------------------------------------------
(* The shell, App.tsx *)

ErrNoWord == "Please enter a target word."
ErrNoDrawing == "Please draw a picture to use 'Submit' mode."
ErrNoInput == "Please provide either an example sentence OR a drawing for generation."
ErrGeneric == "An error occurred while creating the quiz."

\* the checks without the trims
ValidationError_NoTrim(w, s, d, mode) ==
  IF w = <<>> THEN ErrNoWord
  ELSE IF mode = "submit" /\ ~Truthy(d) THEN ErrNoDrawing
  ELSE IF mode = "generate" /\ s = <<>> /\ ~Truthy(d) THEN ErrNoInput
  ELSE NoError

\* App.tsx:37-50: the message of the first failing check, or NoError
ValidationError(w, s, d, mode) ==
  IF Trim(w) = <<>> THEN ErrNoWord
  ELSE IF mode = "submit" /\ ~Truthy(d) THEN ErrNoDrawing
  ELSE IF mode = "generate" /\ Trim(s) = <<>> /\ ~Truthy(d) THEN ErrNoInput
  ELSE NoError

\* App.tsx:58: err.message || "An error occurred while creating the quiz."
\* the caught message shown as it is
ErrorText_NoFallback(msg) == msg

ErrorText(msg) == IF msg = "" THEN ErrGeneric ELSE msg

\* App.tsx:310, 357: the form, and with it a DrawingCanvas, is rendered exactly when
\* there is no result and nothing is loading; a canvas mounted anew starts fresh
Rendered(c, shown) == IF ~shown THEN Unmounted ELSE IF c.mounted THEN c ELSE FreshCanvas

\* App.tsx:54-61: what follows the await of generateQuiz, once it has settled
AfterQuiz(g) ==
  /\ isLoading' = IF g.pc = "awaiting" THEN isLoading ELSE FALSE
  /\ result' = IF g.pc = "returned" THEN g.value ELSE NoResult
  /\ error' = IF g.pc = "thrown" THEN ErrorText(g.error) ELSE NoError
  /\ canvas' = Rendered(canvas, g.pc = "thrown")

\* App.tsx:323
setWord(w) ==
  /\ FormShown
  /\ word' = w
  /\ UNCHANGED <<sentence, drawingData, isLoading, result, userGuess, feedback, error,
                 canvasVars, gq, dlVars>>

\* App.tsx:346
setSentence(s) ==
  /\ FormShown
  /\ sentence' = s
  /\ UNCHANGED <<word, drawingData, isLoading, result, userGuess, feedback, error,
                 canvasVars, gq, dlVars>>

\* App.tsx:21-29
exampleSentences == {<<"a", " ", "_">>}

\* App.tsx:196-199, from the modal the header button opens in every view (App.tsx:271)
selectExample(ex) ==
  /\ sentence' = ex
  /\ UNCHANGED <<word, drawingData, isLoading, result, userGuess, feedback, error,
                 canvasVars, gq, dlVars>>

\* an activation that has settled and has no request in flight is gone
Collected(g) ==
  IF g.pc \in {"returned", "thrown"} /\ g.image.state # "pending" /\ g.text.state # "pending"
  THEN IdleQuiz
  ELSE g

\* App.tsx:31-62, up to the await
handleQuizGeneration(mode) ==
  /\ FormShown
  /\ userGuess' = <<>>
  /\ feedback' = "none"
  /\ UNCHANGED <<word, sentence, drawingData, dlVars>>
  /\ IF ValidationError(word, sentence, drawingData, mode) # NoError
     THEN /\ error' = ValidationError(word, sentence, drawingData, mode)
          /\ result' = NoResult
          /\ UNCHANGED <<isLoading, canvasVars, gq>>
     ELSE LET g == generateQuizCall(word, sentence, drawingData, mode)
          IN  /\ gq' = Collected(g)
              /\ cbLog' = NoCallbacks
              /\ IF g.pc = "awaiting"
                 THEN /\ isLoading' = TRUE
                      /\ error' = NoError
                      /\ result' = NoResult
                      /\ canvas' = Rendered(canvas, FALSE)
                 ELSE AfterQuiz(g)

\* a service request of the call the shell awaits settles
ShellSettles(g) ==
  /\ gq' = Collected(g)
  /\ IF gq.pc = "awaiting"
     THEN AfterQuiz(g)
     ELSE UNCHANGED <<isLoading, result, error, canvas>>
  /\ UNCHANGED <<word, sentence, drawingData, userGuess, feedback, cbLog, dlVars>>

ImageRequestFulfilled ==
  /\ gq.image.state = "pending"
  /\ \E resp \in ImageResponses : ShellSettles(ImageFulfilled(gq, resp))

ImageRequestRejected ==
  /\ gq.image.state = "pending"
  /\ \E msg \in RejectMessages : ShellSettles(ImageRejected(gq, msg))

TextRequestFulfilled ==
  /\ gq.text.state = "pending"
  /\ \E payload \in TextPayloads : ShellSettles(TextFulfilled(gq, payload))

TextRequestRejected ==
  /\ gq.text.state = "pending"
  /\ \E msg \in RejectMessages : ShellSettles(TextRejected(gq, msg))

\* String.prototype.toLowerCase
ToLowerCase(s) == [i \in 1..Len(s) |-> IF s[i] = "A" THEN "a" ELSE s[i]]

\* App.tsx:425, rendered while feedback is not 'correct'
setUserGuess(g) ==
  /\ result.present
  /\ feedback # "correct"
  /\ userGuess' = g
  /\ UNCHANGED <<word, sentence, drawingData, isLoading, result, feedback, error,
                 canvasVars, gq, dlVars>>

\* a comparison that trims but keeps the case
checkedFeedback_CaseSensitive(res, guess, fb) ==
  IF ~res.present THEN fb
  ELSE IF Trim(guess) = Trim(res.targetWord) THEN "correct" ELSE "incorrect"

\* App.tsx:64-71: the feedback checkAnswer leaves, fb being the one before
checkedFeedback(res, guess, fb) ==
  IF ~res.present THEN fb
  ELSE IF Trim(ToLowerCase(guess)) = Trim(ToLowerCase(res.targetWord))
       THEN "correct"
       ELSE "incorrect"

\* App.tsx:64-71, the Check button (App.tsx:430) rendered in the result card
\* while feedback is not 'correct'
checkAnswer ==
  /\ result.present
  /\ feedback # "correct"
  /\ feedback' = checkedFeedback(result, userGuess, feedback)
  /\ UNCHANGED <<word, sentence, drawingData, isLoading, result, userGuess, error,
                 canvasVars, gq, dlVars>>

\* App.tsx:73-81
reset ==
  /\ result.present
  /\ result' = NoResult
  /\ word' = <<>>
  /\ sentence' = <<>>
  /\ drawingData' = Null
  /\ userGuess' = <<>>
  /\ feedback' = "none"
  /\ error' = NoError
  /\ canvas' = Rendered(canvas, ~isLoading)
  /\ UNCHANGED <<isLoading, cbLog, gq, dlVars>>

----------------------------------------------------------------------------
(* The result card compositor, App.tsx:83-194 *)

MaxDim == 3        \* the decoded image is at most MaxDim x MaxDim
GlyphWidth == 400  \* ctx.measureText: the width of one character of 'bold 48px serif'

cardWidth == 1200
padding == 60
lineHeight == 70
textMaxWidth == cardWidth - (padding * 2)

\* img.width and img.height once the decode succeeded; a width of 0 is left out
ImgWidths == 1..MaxDim
ImgHeights == 0..MaxDim

\* where the try block of downloadImage may throw for reasons outside the program:
\* img.onerror, getContext returning null, canvas.toDataURL throwing
FailSteps == {"none", "decode", "context", "encode"}

\* ctx.measureText(text).width
measureText(text) == Len(text) * GlyphWidth

\* String.prototype.split(' ')
RECURSIVE SplitFrom(_, _, _)
SplitFrom(s, cur, acc) ==
  IF s = <<>> THEN Append(acc, cur)
  ELSE IF Head(s) = " " THEN SplitFrom(Tail(s), <<>>, Append(acc, cur))
  ELSE SplitFrom(Tail(s), Append(cur, Head(s)), acc)
Split(s) == SplitFrom(s, <<>>, <<>>)

\* App.tsx:119-133: the greedy wrap; n counts from 1 here
RECURSIVE WrapFrom(_, _, _, _)
WrapFrom(words, n, line, lines) ==
  IF n > Len(words) THEN Append(lines, line)
  ELSE LET testLine == line \o words[n] \o <<" ">>
       IN  IF measureText(testLine) > textMaxWidth /\ n > 1
           THEN WrapFrom(words, n + 1, words[n] \o <<" ">>, Append(lines, line))
           ELSE WrapFrom(words, n + 1, testLine, lines)
WrapLines(blanked) == WrapFrom(Split(blanked), 1, <<>>, <<>>)

RECURSIVE OddPart(_)
OddPart(n) == IF n % 2 = 0 THEN OddPart(n \div 2) ELSE n

\* App.tsx:108-109: the integer part of cardWidth * (img.height / img.width) when
\* img.height > 0, of cardWidth * 1 otherwise.  The quotient is a double: where it is
\* not exact, a product whose exact value is an integer may come out just below it.
ScaledHeights(w, h) ==
  IF h > 0
  THEN LET q == (cardWidth * h) \div w
       IN  IF (cardWidth * h) % w = 0 /\ h % OddPart(w) # 0 THEN {q - 1, q} ELSE {q}
  ELSE {cardWidth * 1}

\* the text block with the padding counted once
CardHeight_OnePadding(scaled, nLines) == scaled + ((nLines * lineHeight) + padding)

\* App.tsx:136-141: canvas.height, an integer
CardHeight(scaled, nLines) == scaled + ((nLines * lineHeight) + (padding * 2))

\* String.prototype.replace(/\s+/g, '_')
RECURSIVE ReplaceWs(_)
ReplaceWs(s) ==
  IF s = <<>> THEN <<>>
  ELSE IF IsWs(Head(s)) THEN <<"_">> \o ReplaceWs(TrimStart(s))
  ELSE <<Head(s)>> \o ReplaceWs(Tail(s))

Link(name, href, kind) == [download |-> name, href |-> href, kind |-> kind]

\* App.tsx:176-182
CardLink(res) ==
  Link(<<"visual-vocab-">> \o ReplaceWs(res.targetWord) \o <<".png">>,
       <<PngHeader, "card">>, "card")

\* App.tsx:184-193
FallbackLink(res) ==
  Link(<<"visual-vocab-">> \o res.targetWord \o <<".png">>, res.imageUrl, "image")

\* whether the try block runs to its end: App.tsx:98 (decode), 103 (context),
\* 118 (split of a blankedSentence that is no string), 179 (encode)
Composites(res, fail) ==
  /\ fail = "none"
  /\ res.blankedSentence # Undefined
  /\ res.blankedSentence # Null

\* a catch block that only logs
DownloadClicks_NoFallback(res, fail) ==
  IF Composites(res, fail) THEN <<CardLink(res)>> ELSE <<>>

\* App.tsx:83-194: the link.click() calls of one activation
DownloadClicks(res, fail) ==
  IF Composites(res, fail) THEN <<CardLink(res)>> ELSE <<FallbackLink(res)>>

NoDownload ==
  [res |-> NoResult, fail |-> "none", clicks |-> <<>>,
   imgWidth |-> 0, imgHeight |-> 0, lines |-> 0, width |-> 0, height |-> 0]

\* App.tsx:83-98: the handler up to the await of the decode
downloadImage ==
  /\ result.present
  /\ Len(dls) < MaxDownloads
  /\ dls' = Append(dls, result)
  /\ UNCHANGED <<shellVars, canvasVars, gq, lastDl>>

\* App.tsx:98-194: the decode settles and the rest of the handler runs
imageSettled(i, fail, w, h, scaled) ==
  LET res == dls[i]
      nLines == IF Composites(res, fail) THEN Len(WrapLines(res.blankedSentence)) ELSE 0
  IN  /\ dls' = SubSeq(dls, 1, i - 1) \o SubSeq(dls, i + 1, Len(dls))
      /\ lastDl' = [res |-> res, fail |-> fail,
                    clicks |-> DownloadClicks(res, fail),
                    imgWidth |-> IF Composites(res, fail) THEN w ELSE 0,
                    imgHeight |-> IF Composites(res, fail) THEN h ELSE 0,
                    lines |-> nLines,
                    width |-> IF Composites(res, fail) THEN cardWidth ELSE 0,
                    height |-> IF Composites(res, fail)
                               THEN CardHeight(scaled, nLines) ELSE 0]
      /\ UNCHANGED <<shellVars, canvasVars, gq>>

----------------------------------------------------------------------------
(* The application *)

Init ==
  /\ word = <<>>
  /\ sentence = <<>>
  /\ drawingData = Null
  /\ isLoading = FALSE
  /\ result = NoResult
  /\ userGuess = <<>>
  /\ feedback = "none"
  /\ error = NoError
  /\ canvas = FreshCanvas
  /\ cbLog = NoCallbacks
  /\ gq = IdleQuiz
  /\ dls = <<>>
  /\ lastDl = NoDownload

\* downloadImage (App.tsx:83-194) reads result and writes no state of the shell; its
\* activations are followed from the result card on, under CardSpec below
Next ==
  \/ \E w \in WordInputs : setWord(w)
  \/ \E s \in SentenceInputs : setSentence(s)
  \/ \E ex \in exampleSentences : selectExample(ex)
  \/ startDrawing
  \/ draw
  \/ \E event \in {"release", "leave"} : stopDrawing(event)
  \/ clearCanvas
  \/ \E mode \in Modes : handleQuizGeneration(mode)
  \/ ImageRequestFulfilled
  \/ ImageRequestRejected
  \/ TextRequestFulfilled
  \/ TextRequestRejected
  \/ \E g \in GuessInputs : setUserGuess(g)
  \/ checkAnswer
  \/ reset

Spec == Init /\ [][Next]_vars

----------------------------------------------------------------------------
(* generateQuiz called with any arguments, one activation at a time *)

callGenerateQuiz(w, s, d, m) ==
  /\ gq.pc # "awaiting"
  /\ gq' = generateQuizCall(w, s, d, m)
  /\ UNCHANGED <<shellVars, canvasVars, dlVars>>

imageFulfilled(resp) ==
  /\ gq.image.state = "pending"
  /\ gq' = ImageFulfilled(gq, resp)
  /\ UNCHANGED <<shellVars, canvasVars, dlVars>>

imageRejected(msg) ==
  /\ gq.image.state = "pending"
  /\ gq' = ImageRejected(gq, msg)
  /\ UNCHANGED <<shellVars, canvasVars, dlVars>>

textFulfilled(payload) ==
  /\ gq.text.state = "pending"
  /\ gq' = TextFulfilled(gq, payload)
  /\ UNCHANGED <<shellVars, canvasVars, dlVars>>

textRejected(msg) ==
  /\ gq.text.state = "pending"
  /\ gq' = TextRejected(gq, msg)
  /\ UNCHANGED <<shellVars, canvasVars, dlVars>>

QuizNext ==
  \/ \E w \in WordInputs, s \in SentenceInputs, d \in DrawingInputs, m \in Modes :
       callGenerateQuiz(w, s, d, m)
  \/ \E resp \in ImageResponses : imageFulfilled(resp)
  \/ \E msg \in RejectMessages : imageRejected(msg)
  \/ \E payload \in TextPayloads : textFulfilled(payload)
  \/ \E msg \in RejectMessages : textRejected(msg)

QuizSpec == Init /\ [][QuizNext]_vars

----------------------------------------------------------------------------
(* The result card: the shell holding a result generateQuiz can return *)

\* the drawings the surface hands to the shell (DrawingCanvas.tsx:94-96), or none
ShellDrawings == {Null} \cup {toDataURL([FreshCanvas EXCEPT !.ink = k]) : k \in 0..MaxInk}

\* one call of generateQuiz whose requests are answered by resp and payload
Answered(w, s, d, m, resp, payload) ==
  LET g0 == generateQuizCall(w, s, d, m)
      g1 == IF g0.image.state = "pending" THEN ImageFulfilled(g0, resp) ELSE g0
  IN  IF g1.text.state = "pending" THEN TextFulfilled(g1, payload) ELSE g1

\* the results the shell can come to hold (App.tsx:37-56)
ShellResults ==
  { g.value : g \in
      { a \in { Answered(w, s, d, m, resp, payload) :
                  w \in WordInputs, s \in SentenceInputs, d \in ShellDrawings,
                  m \in Modes, resp \in ImageResponses, payload \in TextPayloads }
          : a.pc = "returned" /\ ValidationError(a.word, a.sentence, a.drawing, a.mode) = NoError } }

CardInit ==
  /\ word \in {w \in WordInputs : Trim(w) # <<>>}
  /\ result \in {r \in ShellResults : r.targetWord = word}
  /\ sentence = <<>>
  /\ drawingData = Null
  /\ isLoading = FALSE
  /\ userGuess = <<>>
  /\ feedback = "none"
  /\ error = NoError
  /\ canvas = Unmounted
  /\ cbLog = NoCallbacks
  /\ gq = IdleQuiz
  /\ dls = <<>>
  /\ lastDl = NoDownload

CardNext ==
  \/ \E g \in GuessInputs : setUserGuess(g)
  \/ checkAnswer
  \/ reset
  \/ downloadImage
  \/ \E i \in 1..Len(dls), fail \in FailSteps, w \in ImgWidths, h \in ImgHeights :
       \E scaled \in ScaledHeights(w, h) : imageSettled(i, fail, w, h, scaled)

CardSpec == CardInit /\ [][CardNext]_vars

----------------------------------------------------------------------------
(* Properties *)

\* the required inputs of the mode are missing (spec 4.2)
MissingInputs(g) ==
  \/ g.mode = "submit" /\ ~Truthy(g.drawing)
  \/ g.mode = "generate" /\ Trim(g.sentence) = <<>> /\ ~Truthy(g.drawing)

NoImageRequest(reqs) == \A i \in 1..Len(reqs) : ~IsImageRequest(reqs[i])

\* C1: for a non-empty word, generateQuiz called with the inputs its mode requires
\* missing has failed with that mode's validation error, and no image or text
\* request has been issued.
C1_ValidationBeforeRequests ==
  (gq.pc # "idle" /\ gq.word # <<>> /\ MissingInputs(gq)) =>
    /\ gq.pc = "thrown"
    /\ gq.error = IF gq.mode = "submit" THEN ErrSubmitNoDrawing ELSE ErrGenerateNoInput
    /\ gq.reqs = <<>>
    /\ gq.image.state = "none"
    /\ gq.text.state = "none"
    /\ ~gq.value.present

C1_Witness ==
  /\ gq.pc = "thrown"
  /\ gq.mode = "generate"
  /\ gq.word = <<"A", " ", " ", "b">>
  /\ gq.sentence = <<" ">>
  /\ gq.drawing = Null
  /\ gq.error = ErrGenerateNoInput

\* C2: in submit mode with a drawing, generateQuiz issues no image request, and a
\* result it returns has imageUrl equal to the drawing passed in, header included.
C2_SubmitVerbatim ==
  (gq.pc # "idle" /\ gq.mode = "submit" /\ Truthy(gq.drawing)) =>
    /\ NoImageRequest(gq.reqs)
    /\ gq.pc = "returned" => gq.value.imageUrl = gq.drawing

C2_Witness ==
  /\ gq.pc = "returned"
  /\ gq.mode = "submit"
  /\ gq.drawing = <<PngHeader, "i">>
  /\ gq.value.imageUrl = <<PngHeader, "i">>

Populated(r) ==
  /\ Truthy(r.imageUrl)
  /\ Truthy(r.originalSentence)
  /\ Truthy(r.blankedSentence)

\* C3: a result the shell holds has imageUrl, originalSentence and blankedSentence
\* all present and non-empty, whatever the text service answered.
C3_FullyPopulated == result.present => Populated(result)

\* C4: generateQuiz has returned a result only if both the image branch and the
\* text branch completed successfully; once either has rejected, the call has
\* failed and there is no result.
C4_WaitForBoth ==
  /\ gq.pc = "returned" => ImageDone(gq) /\ TextDone(gq)
  /\ gq.value.present => gq.pc = "returned"
  /\ (gq.image.state = "rejected" \/ gq.text.state = "rejected") =>
       gq.pc = "thrown" /\ ~gq.value.present

C4_Witness ==
  /\ gq.pc = "thrown"
  /\ gq.image.state = "fulfilled"
  /\ gq.image.resp =
       ImageResponse(TRUE, <<Candidate(TRUE, TRUE, <<Part(FALSE, <<>>), Part(TRUE, <<"g">>)>>)>>)
  /\ gq.text.state = "rejected"

\* the response carries no image: no candidates, a candidate without parts, or
\* parts none of which is inline data
YieldsNoImage(resp) ==
  \/ ~resp.hasCandidates
  \/ resp.candidates = <<>>
  \/ ~resp.candidates[1].hasContent
  \/ ~resp.candidates[1].hasParts
  \/ \A i \in 1..Len(resp.candidates[1].parts) : ~resp.candidates[1].parts[i].hasInline

\* C5: in generate mode, when both requests have been answered and the image
\* response carries no image, generateQuiz has failed with
\* "Failed to generate or process image." and returned no result.
C5_NoImageFails ==
  (gq.mode = "generate" /\ gq.image.state = "fulfilled" /\ gq.text.state = "fulfilled"
     /\ YieldsNoImage(gq.image.resp)) =>
    /\ gq.pc = "thrown"
    /\ gq.error = ErrImageFailed
    /\ ~gq.value.present

\* what handleQuizGeneration is to reject (spec 7)
InvalidForm(mode) ==
  \/ Trim(word) = <<>>
  \/ mode = "submit" /\ ~Truthy(drawingData)
  \/ mode = "generate" /\ Trim(sentence) = <<>> /\ ~Truthy(drawingData)

\* C6: a run of handleQuizGeneration on a blank word, or in submit mode without a
\* drawing, or in generate mode with neither a non-blank sentence nor a drawing,
\* sets an error message, calls generateQuiz not at all (no request is issued) and
\* leaves the loading flag false.
C6_LocalValidation ==
  [][\A mode \in Modes :
       (InvalidForm(mode) /\ handleQuizGeneration(mode)) =>
         /\ error' # NoError
         /\ error' \in {ErrNoWord, ErrNoDrawing, ErrNoInput}
         /\ gq' = gq
         /\ ~isLoading /\ ~isLoading'
         /\ ~result'.present]_vars

C6_Witness ==
  /\ error = ErrNoInput
  /\ Trim(word) # <<>>
  /\ Trim(sentence) = <<>> /\ sentence # <<>>
  /\ drawingData = Null
  /\ ~isLoading
  /\ gq = IdleQuiz

IsStop(event) == event \in {"release", "leave"}

\* C7 as stated: a clear calls the ready-callback with null and leaves has-drawn
\* false; a release or leave while Drawing calls it exactly once, with an image;
\* a release or leave while Idle does not call it.
C7_EveryStrokeExports ==
  /\ cbLog.event = "clear" => cbLog.calls = <<Null>> /\ ~canvas.hasDrawn
  /\ (IsStop(cbLog.event) /\ cbLog.wasDrawing) =>
       Len(cbLog.calls) = 1 /\ cbLog.calls[1] # Null
  /\ (IsStop(cbLog.event) /\ ~cbLog.wasDrawing) => cbLog.calls = <<>>

\* C7: a clear calls the ready-callback with null and leaves has-drawn false; a
\* release or leave while Drawing calls it exactly once, with an image, if has-drawn
\* is still set, and not at all if a clear came since the press; a release or leave
\* while Idle does not call it.
C7_StrokeExportsUnlessCleared ==
  /\ cbLog.event = "clear" => cbLog.calls = <<Null>> /\ ~canvas.hasDrawn
  /\ (IsStop(cbLog.event) /\ cbLog.wasDrawing /\ cbLog.hadDrawn) =>
       Len(cbLog.calls) = 1 /\ cbLog.calls[1] # Null /\ drawingData = cbLog.calls[1]
  /\ (IsStop(cbLog.event) /\ cbLog.wasDrawing /\ ~cbLog.hadDrawn) => cbLog.calls = <<>>
  /\ (IsStop(cbLog.event) /\ ~cbLog.wasDrawing) => cbLog.calls = <<>>
  /\ cbLog.event \in {"press", "move"} => cbLog.calls = <<>>

C7_Witness ==
  /\ cbLog.event = "leave"
  /\ cbLog.wasDrawing /\ cbLog.hadDrawn
  /\ cbLog.calls = <<toDataURL(canvas)>>
  /\ canvas.ink = 1
  /\ drawingData = toDataURL(canvas)

\* C8: every download of a finished downloadImage is named visual-vocab-<target
\* word with each whitespace run replaced by an underscore>.png.
C8_Filename ==
  \A i \in 1..Len(lastDl.clicks) :
    lastDl.clicks[i].download =
      <<"visual-vocab-">> \o ReplaceWs(lastDl.res.targetWord) \o <<".png">>

IsString(v) == v # Undefined /\ v # Null

\* C9: a finished downloadImage has triggered exactly one download: the card if the
\* decode and every compositing step succeeded, the result's own image otherwise (a
\* missing blankedSentence included); and the step that finishes it leaves the
\* shell's error, result and feedback as they were.
C9_OneDownload ==
  /\ [](lastDl.res.present =>
          /\ Len(lastDl.clicks) = 1
          /\ IF lastDl.fail = "none" /\ IsString(lastDl.res.blankedSentence)
             THEN lastDl.clicks[1].kind = "card" /\ lastDl.clicks[1].href = <<PngHeader, "card">>
             ELSE lastDl.clicks[1].kind = "image"
                  /\ lastDl.clicks[1].href = lastDl.res.imageUrl)
  /\ [][Len(dls') < Len(dls) => UNCHANGED <<error, result, feedback>>]_vars

C9_Witness ==
  /\ lastDl.res.present
  /\ lastDl.res.blankedSentence = Undefined
  /\ lastDl.fail = "none"
  /\ Len(lastDl.clicks) = 1
  /\ lastDl.clicks[1].href = lastDl.res.imageUrl
  /\ result = lastDl.res

Composited == lastDl.width # 0

TextBlock == (lastDl.lines * 70) + (2 * 60)

\* |canvasHeight - (1200 * h / w + textBlock)| <= 1, cleared of the division
WithinRounding(canvasHeight, w, h, textBlock) ==
  /\ w * (canvasHeight - textBlock) - (1200 * h) <= w
  /\ (1200 * h) - w * (canvasHeight - textBlock) <= w

\* C10 as stated: for every decoded image of width w > 0 and height h and n >= 1
\* wrapped lines, the card is 1200 wide and 1200*h/w + n*70 + 2*60 high (within the
\* rounding to an integer canvas height).
C10_HeightAnyImage ==
  (Composited /\ lastDl.imgWidth > 0 /\ lastDl.lines >= 1) =>
    /\ lastDl.width = 1200
    /\ WithinRounding(lastDl.height, lastDl.imgWidth, lastDl.imgHeight, TextBlock)

\* C10: for every decoded image of width w > 0 and height h > 0 and n >= 1 wrapped
\* lines, the card is 1200 wide and 1200*h/w + n*70 + 2*60 high (within the rounding
\* to an integer canvas height), 1530 for a square image and 3 lines; for h = 0 the
\* image is taken as square and the card is 1200 + n*70 + 2*60 high.
C10_HeightPositiveImage ==
  (Composited /\ lastDl.imgWidth > 0) =>
    /\ lastDl.lines >= 1
    /\ lastDl.width = 1200
    /\ lastDl.imgHeight > 0 =>
         WithinRounding(lastDl.height, lastDl.imgWidth, lastDl.imgHeight, TextBlock)
    /\ lastDl.imgHeight = 0 => lastDl.height = 1200 + TextBlock
    /\ (lastDl.imgHeight = lastDl.imgWidth /\ lastDl.lines = 3) => lastDl.height = 1530

C10_Witness ==
  /\ Composited
  /\ lastDl.imgWidth = 2 /\ lastDl.imgHeight = 2
  /\ lastDl.lines = 3
  /\ lastDl.height = 1530

CountKind(reqs, kinds) == Cardinality({i \in 1..Len(reqs) : reqs[i].kind \in kinds})

\* C11: a call of generateQuiz that passes validation has issued exactly one text
\* request, and for the image: none in submit mode, one sketch-to-illustration
\* request in generate mode with a drawing (a sentence present or not), one
\* text-to-illustration request in generate mode with a sentence and no drawing;
\* so at most two requests in all.
C11_OneTextOneBranch ==
  (gq.pc # "idle" /\ ~MissingInputs(gq)) =>
    /\ CountKind(gq.reqs, {"blank", "author"}) = 1
    /\ gq.mode = "submit" =>
         CountKind(gq.reqs, {"sketch", "text2img"}) = 0 /\ gq.image.state = "original"
    /\ (gq.mode = "generate" /\ Truthy(gq.drawing)) =>
         CountKind(gq.reqs, {"sketch"}) = 1 /\ CountKind(gq.reqs, {"text2img"}) = 0
    /\ (gq.mode = "generate" /\ ~Truthy(gq.drawing)) =>
         CountKind(gq.reqs, {"text2img"}) = 1 /\ CountKind(gq.reqs, {"sketch"}) = 0
    /\ Len(gq.reqs) <= 2

C11_Witness ==
  /\ gq.pc = "awaiting"
  /\ gq.mode = "generate"
  /\ gq.drawing = <<PngHeader, "i">>
  /\ gq.sentence = <<"a", " ", "_">>
  /\ Len(gq.reqs) = 2
  /\ gq.reqs[1].kind = "sketch" /\ gq.reqs[1].data = <<"i">>
  /\ gq.reqs[2].kind = "blank"

\* the activations the pending requests of gq can settle into
Settlements ==
  (IF gq.image.state = "pending"
   THEN {ImageFulfilled(gq, resp) : resp \in ImageResponses}
          \cup {ImageRejected(gq, msg) : msg \in RejectMessages}
   ELSE {})
  \cup
  (IF gq.text.state = "pending"
   THEN {TextFulfilled(gq, payload) : payload \in TextPayloads}
          \cup {TextRejected(gq, msg) : msg \in RejectMessages}
   ELSE {})

\* C12: when the call awaited by the Shell fails, the Shell shows the error's
\* message, or the generic message when it is empty, with no result and the
\* loading flag false; and requests are issued by a submission only, never by
\* the failure or by any later step.
C12_FailureShown ==
  [][ /\ \A g \in Settlements :
           (gq.pc = "awaiting" /\ g.pc = "thrown" /\ ShellSettles(g)) =>
             /\ error' = (IF g.error = "" THEN ErrGeneric ELSE g.error)
             /\ error' \notin {NoError, ""}
             /\ ~result'.present
             /\ ~isLoading'
             /\ gq'.reqs \in {gq.reqs, <<>>}
      /\ (gq'.reqs # gq.reqs /\ gq'.reqs # <<>>) =>
           \E mode \in Modes : handleQuizGeneration(mode)
    ]_vars

C12_Witness ==
  /\ error = ErrGeneric
  /\ ~result.present
  /\ ~isLoading
  /\ gq.pc = "thrown"
  /\ gq.error = ""
  /\ gq.image.state = "pending"

\* request p of the awaited call is unsettled before and after the step
StaysPending(p) ==
  /\ gq.pc = "awaiting"
  /\ gq[p].state = "pending"
  /\ gq'[p].state = "pending"

StillLoading == isLoading /\ ~result.present /\ error = NoError

\* C13 as stated: while either request of the awaited call stays unsettled,
\* the call does not complete and the Shell stays loading with neither a
\* result nor an error, whatever the other request does.
C13_HungRequestHangs ==
  [][ (StaysPending("image") \/ StaysPending("text")) =>
        gq'.pc = "awaiting" /\ StillLoading'
    ]_vars

\* C13 amended: while a request of the awaited call stays unsettled, the call
\* does not complete and the Shell stays loading with neither a result nor an
\* error, unless the other request rejects: then the call fails at once and
\* the Shell leaves the loading state with that error and no result.
C13_HungRequestHangsUnlessRejected ==
  /\ [](gq.pc = "awaiting" => StillLoading)
  /\ [][ /\ StaysPending("image") =>
              \/ gq'.pc = "awaiting" /\ StillLoading'
              \/ /\ gq'.text.state = "rejected"
                 /\ gq'.pc = "thrown"
                 /\ ~isLoading' /\ ~result'.present
                 /\ error' = ErrorText(gq'.text.reason)
         /\ StaysPending("text") =>
              \/ gq'.pc = "awaiting" /\ StillLoading'
              \/ /\ gq'.image.state = "rejected"
                 /\ gq'.pc = "thrown"
                 /\ ~isLoading' /\ ~result'.present
                 /\ error' = ErrorText(gq'.image.reason)
       ]_vars

C13_Witness ==
  /\ gq.pc = "awaiting"
  /\ gq.image.state = "fulfilled"
  /\ gq.text.state = "pending"
  /\ StillLoading

\* C14: whenever the input form is shown, the Shell holds a drawing only if the
\* mounted Drawing Surface has its has-drawn flag true, also after a failed
\* generation has unmounted the form and mounted it afresh.
C14_HeldDrawingIsShown ==
  FormShown => (drawingData # Null => canvas.mounted /\ canvas.hasDrawn)

\* C15: the Shell awaits a call of generateQuiz exactly while the loading flag
\* is true, and a call is started only when none is awaited, so at most one is
\* in flight; while loading, result and error are both null and submit,
\* generate, check-answer and reset are not enabled; result and error are never
\* both non-null.
C15_OneCallInFlight ==
  /\ [](isLoading <=> gq.pc = "awaiting")
  /\ [](isLoading => ~result.present /\ error = NoError)
  /\ [](isLoading => /\ ~ENABLED (\E mode \in Modes : handleQuizGeneration(mode))
                     /\ ~ENABLED checkAnswer
                     /\ ~ENABLED reset)
  /\ [](~(result.present /\ error # NoError))
  /\ [][(\E mode \in Modes : handleQuizGeneration(mode)) => gq.pc # "awaiting"]_vars

C15_Witness ==
  /\ isLoading
  /\ gq.pc = "awaiting"
  /\ gq.image.state = "pending"
  /\ gq.text.state = "pending"
  /\ Len(gq.reqs) = 2

Feedbacks == {"none", "correct", "incorrect"}

SameAnswer(a, b) == Trim(ToLowerCase(a)) = Trim(ToLowerCase(b))

\* C16: checkAnswer leaves feedback 'correct' exactly when guess and target
\* word are equal after lower-casing and trimming both, 'incorrect' otherwise,
\* and leaves it as it was when there is no result; once feedback is 'correct'
\* no guess or check is enabled and it stays 'correct' until a step that
\* clears result, word, sentence, drawing, guess, feedback and error together.
C16_CheckAnswer ==
  /\ [](\A g \in GuessInputs : \A fb \in Feedbacks :
          checkedFeedback(NoResult, g, fb) = fb)
  /\ [][checkAnswer =>
          /\ SameAnswer(userGuess, result.targetWord) => feedback' = "correct"
          /\ ~SameAnswer(userGuess, result.targetWord) => feedback' = "incorrect"
       ]_vars
  /\ [](feedback = "correct" =>
          /\ ~ENABLED checkAnswer
          /\ ~ENABLED (\E g \in GuessInputs : setUserGuess(g)))
  /\ [][feedback = "correct" =>
          \/ feedback' = "correct" /\ result' = result /\ userGuess' = userGuess
          \/ /\ reset
             /\ feedback' = "none"
             /\ ~result'.present
             /\ word' = <<>> /\ sentence' = <<>>
             /\ drawingData' = Null
             /\ userGuess' = <<>>
             /\ error' = NoError
       ]_vars

C16_Witness ==
  /\ feedback = "correct"
  /\ userGuess = <<" ", "a", " ", " ", "b">>
  /\ result.present
  /\ result.targetWord = <<"A", " ", " ", "b">>

====
